---- MODULE Spec2Model ----
(***************************************************************************)
(* Model of the streaming pipelines of go-template-streaming:              *)
(* generateStreamingMarkdown and generateStreamingStringMarkdown.  A       *)
(* producer goroutine reads rows from the database and sends them on an    *)
(* unbuffered channel; a consumer goroutine executes a text/template that  *)
(* ranges over the channel and writes to os.Stdout; an errgroup waits for  *)
(* both and returns the first error.                                       *)
(***************************************************************************)
EXTENDS Integers, Sequences, FiniteSets, TLC

(* ------------------------------ bounds -------------------------------- *)

\* Largest number of rows in the users table that is explored.
MaxRows == 3

\* Largest --total-users given to createDb.
MaxUsers == 7

\* usersPerBatch := 10000 in createDb, scaled down: the length of rowsToInsert.
usersPerBatch == 3

\* The largest number of ticks of the 200ms ticker in a run of monitorHeapSize.
MaxTicks == 3

\* Largest number of rows in the users table when the whole generate
\* command is explored, and largest number of ticks of its monitor.
GenRows == 1

GenTicks == 1

(* --------------------------- row source ------------------------------- *)

\* A row of the users table in SELECT column order:
\* email, first_name, last_name, address, city, zip.
RowValues ==
  { <<"a@x.com", "A", "B", "1 St", "C", "00000">>,
    <<"", "", "", "", "", "">> }

RECURSIVE SeqsUpTo(_, _)
SeqsUpTo(S, n) ==
  IF n = 0 THEN { <<>> }
  ELSE LET shorter == SeqsUpTo(S, n - 1)
       IN  shorter \cup { Append(s, x) : s \in { t \in shorter : Len(t) = n - 1 }, x \in S }

Sources == SeqsUpTo(RowValues, MaxRows)

Modes == { "structured", "string" }


\* A Scan whose destinations for first_name and last_name are exchanged.
ScanUserSwapped(row) ==
  [ Email |-> row[1], FirstName |-> row[3], LastName |-> row[2],
    Address |-> row[4], City |-> row[5], Zip |-> row[6] ]

\* rows.Scan(&user.Email, &user.FirstName, ...) : one column per field.
ScanUser(row) ==
  [ Email |-> row[1], FirstName |-> row[2], LastName |-> row[3],
    Address |-> row[4], City |-> row[5], Zip |-> row[6] ]

\* SELECT (email || '|' || first_name || ... || zip), then rows.Scan(&s).
ScanString(row) ==
  row[1] \o "|" \o row[2] \o "|" \o row[3] \o "|" \o row[4] \o "|" \o row[5] \o "|" \o row[6]

Scan(m, row) == IF m = "structured" THEN ScanUser(row) ELSE ScanString(row)

(* ----------------------------- templates ------------------------------ *)

NL == "\n"
HeaderLine == "| Email | First Name | Last Name | Address | City | Zip |"
SeparatorLine == "|-------|------------|-----------|---------|------|-----|"

Text(toks) == [ t |-> "text", s |-> toks, f |-> "" ]
Field(name) == [ t |-> "field", s |-> <<>>, f |-> name ]


\* markdownTemplate with {{end}} moved behind the last newline: the text after
\* the rows becomes part of the range body.
markdownTemplateFooterInRange ==
  [ header |-> <<NL, HeaderLine, NL, SeparatorLine, NL>>,
    body   |-> << Text(<<NL, "| ">>), Field("Email"),
                  Text(<<" | ">>), Field("FirstName"),
                  Text(<<" | ">>), Field("LastName"),
                  Text(<<" | ">>), Field("Address"),
                  Text(<<" | ">>), Field("City"),
                  Text(<<" | ">>), Field("Zip"),
                  Text(<<" |", NL>>) >>,
    footer |-> <<>> ]

\* The parse tree of markdownTemplate: the text before {{range .}}, the
\* nodes of the range body, the text after {{end}}.  Text is kept as a
\* sequence of tokens in which every newline is a token of its own.
markdownTemplate ==
  [ header |-> <<NL, HeaderLine, NL, SeparatorLine, NL>>,
    body   |-> << Text(<<NL, "| ">>), Field("Email"),
                  Text(<<" | ">>), Field("FirstName"),
                  Text(<<" | ">>), Field("LastName"),
                  Text(<<" | ">>), Field("Address"),
                  Text(<<" | ">>), Field("City"),
                  Text(<<" | ">>), Field("Zip"),
                  Text(<<" |">>) >>,
    footer |-> <<NL>> ]

\* The parse tree of markdownStringTemplate.
markdownStringTemplate ==
  [ header |-> <<NL, HeaderLine, NL, SeparatorLine, NL>>,
    body   |-> << Text(<<"|">>), Field("."), Text(<<"|">>) >>,
    footer |-> <<NL>> ]

Template(m) == IF m = "structured" THEN markdownTemplate ELSE markdownStringTemplate

\* What one node of the range body writes when dot is the element elem.
EvalNode(node, elem) ==
  IF node.t = "text" THEN node.s
  ELSE IF node.f = "." THEN <<elem>>
  ELSE <<elem[node.f]>>

(* ------------------------------- state -------------------------------- *)

VARIABLES
  mode,        \* which generator runs
  source,      \* the rows of the users table, in SELECT order
  pPc,         \* producer goroutine: position
  cursor,      \* number of rows rows.Next has fetched
  user,        \* the producer's local `user` / `s`
  pErr,        \* the producer's return value
  dbState,     \* "none" | "open" | "closed"
  rowsState,   \* "none" | "open" | "closed"
  rowsErr,     \* rows.Err(): the error that ended the cursor, never read
  chanBuf,     \* items buffered in channel c
  closeCount,  \* number of close(c) executed
  cPc,         \* consumer goroutine: position
  cNode,       \* index of the next node of the range body
  dot,         \* the element the range body is executed for
  cErr,        \* the consumer's return value
  out,         \* os.Stdout: the tokens written so far
  logged,      \* number of "Successfully generated markdown table." lines
  egErr,       \* errgroup: g.err
  ctxDone,     \* the errgroup context is cancelled
  cancelCount, \* number of g.cancel calls
  mPc,         \* calling goroutine: position
  result,      \* the return value of the generator, "none" until it returns
  profile,     \* the heap profile was written
  sent,        \* history: items whose send completed
  received,    \* history: items the range loop received
  rendered,    \* history: items whose range body was executed to its end
  decoded,     \* history: number of successful rows.Scan
  lateCalls,   \* history: rows.Next / rows.Scan calls on the open cursor that
               \* started after the context was cancelled
  faults       \* history: the operations that failed

\* The state of generateMarkdown, the run that collects all rows in a slice
\* before it executes the template.
VARIABLES
  mdPc,        \* generateMarkdown: position, "idle" when it does not run
  mdCursor,    \* number of rows rows.Next has fetched
  users,       \* the slice `users`
  mdIdx,       \* index in users of the element the range body is executed for
  mdNode,      \* index of the next node of the range body
  mdErr,       \* the local `err` after tmpl.Execute
  mdOut,       \* os.Stdout of this run: the tokens written so far
  mdLogged,    \* number of "Successfully generated markdown table." lines
  mdResult,    \* the return value, "none" until it returns
  mdProfile,   \* the heap profile mem.prof was written
  mdFaults     \* history: the operations that failed

streamVars == << mode, source, pPc, cursor, user, pErr, dbState, rowsState, rowsErr,
                 chanBuf, closeCount, cPc, cNode, dot, cErr, out, logged,
                 egErr, ctxDone, cancelCount, mPc, result, profile,
                 sent, received, rendered, decoded, lateCalls, faults >>

mdVars == << mdPc, mdCursor, users, mdIdx, mdNode, mdErr, mdOut, mdLogged,
             mdResult, mdProfile, mdFaults >>

\* The state of createDb.
VARIABLES
  crPc,         \* createDb: position, "idle" when it does not run
  totalUsers,   \* the argument
  fileExists,   \* users.db exists when createDb starts
  crI,          \* the loop counter i
  rowsToInsert, \* the slice of usersPerBatch row tuples: slot k holds 0 for
                \* the empty string, j + 1 for the tuple of the user made
                \* in iteration j
  table,        \* the rows of the users table, in insertion order
  execs,        \* history: the slices handed to the batch INSERTs
  crResult,     \* the return value, "none" until createDb returns
  reported,     \* "Successfully inserted %d random users" was printed
  crFaults      \* history: the statements that failed

crVars == << crPc, totalUsers, fileExists, crI, rowsToInsert, table, execs,
             crResult, reported, crFaults >>

\* The state of monitorHeapSize, the goroutine the generate command starts.
VARIABLES
  monPc,         \* monitorHeapSize: position, "idle" when it does not run
  withTriggerGC, \* the argument
  cmdCtxDone,    \* the context of the generate command is cancelled
  maxAlloc,      \* the local maxAlloc
  gcRuns,        \* number of runtime.GC() calls
  stderr,        \* os.Stderr: the lines printed so far
  samples,       \* history: the values of mem.HeapAlloc read, one per tick
  printedAllocs  \* history: the value of maxAlloc each printed line renders

monVars == << monPc, withTriggerGC, cmdCtxDone, maxAlloc, gcRuns, stderr,
              samples, printedAllocs >>

\* The state of the Run function of the generate command.
VARIABLES
  cmdPc,           \* position, "idle" when the command does not run
  streaming,       \* the flag --streaming
  streamingString, \* the flag --streaming-string
  triggerGC,       \* the flag --trigger-gc
  started          \* history: the generators called, in order

cmdVars == << cmdPc, streaming, streamingString, triggerGC, started >>

\* A call of convertHumanReadable over the whole range of uint64.
VARIABLES
  chAlloc,   \* the argument alloc, in digits of base 1024, lowest first
  chResult   \* <<what the call computed>>, NoItem before it returns

chVars == << chAlloc, chResult >>

\* What a step of a streaming run leaves alone.
nonStreamVars == << mdVars, crVars, monVars, cmdVars, chVars >>

vars == << streamVars, mdVars, crVars, monVars, cmdVars, chVars >>

pVars   == << pPc, cursor, user, pErr >>
srcVars == << dbState, rowsState, rowsErr >>
cVars   == << cPc, cNode, dot, cErr >>
egVars  == << egErr, ctxDone, cancelCount >>
mVars   == << mPc, result, profile >>

\* A local that holds no element yet; an element x is held as <<x>>.
NoItem == <<>>

\* generateMarkdown before its first statement, at position pc.
MdAt(pc) ==
  /\ mdPc = pc /\ mdCursor = 0 /\ users = <<>> /\ mdIdx = 1 /\ mdNode = 1
  /\ mdErr = "nil" /\ mdOut = <<>> /\ mdLogged = 0
  /\ mdResult = "none" /\ mdProfile = FALSE /\ mdFaults = {}

\* createDb before its first statement, at position pc.
CrAt(pc) ==
  /\ crPc = pc /\ crI = 0
  /\ rowsToInsert = [ k \in 0..(usersPerBatch - 1) |-> 0 ]
  /\ table = <<>> /\ execs = <<>>
  /\ crResult = "none" /\ reported = FALSE /\ crFaults = {}

\* createDb does not run.
CrIdle == totalUsers = 0 /\ fileExists = FALSE /\ CrAt("idle")

\* monitorHeapSize before its first statement, at position pc.
MonAt(pc) ==
  /\ monPc = pc /\ cmdCtxDone = FALSE /\ maxAlloc = 0 /\ gcRuns = 0
  /\ stderr = <<>> /\ samples = <<>> /\ printedAllocs = <<>>

\* monitorHeapSize does not run.
MonIdle == withTriggerGC = FALSE /\ MonAt("idle")

\* The generate command does not run.
CmdIdle ==
  /\ cmdPc = "idle" /\ streaming = FALSE /\ streamingString = FALSE
  /\ triggerGC = FALSE /\ started = <<>>

\* convertHumanReadable is not called.
ChIdle == chAlloc = <<>> /\ chResult = <<>>

\* A streaming generator before the first step of its goroutines.
StreamStart ==
  /\ pPc = "open" /\ cursor = 0 /\ user = NoItem /\ pErr = "nil"
  /\ dbState = "none" /\ rowsState = "none" /\ rowsErr = "nil"
  /\ chanBuf = <<>> /\ closeCount = 0
  /\ cPc = "parse" /\ cNode = 1 /\ dot = NoItem /\ cErr = "nil"
  /\ out = <<>> /\ logged = 0
  /\ egErr = "nil" /\ ctxDone = FALSE /\ cancelCount = 0
  /\ mPc = "wait" /\ result = "none" /\ profile = FALSE
  /\ sent = <<>> /\ received = <<>> /\ rendered = <<>> /\ decoded = 0 /\ lateCalls = 0
  /\ faults = {}

Init ==
  /\ mode \in Modes
  /\ source \in Sources
  /\ StreamStart
  /\ MdAt("idle")
  /\ CrIdle
  /\ MonIdle
  /\ CmdIdle
  /\ ChIdle

(* ------------------------------ channel ------------------------------- *)

\* A channel made with room for one element.
ChanCapOne == 0 + 1

\* c := make(chan User) / make(chan string): no capacity argument.
ChanCap == 0

chanClosed == closeCount > 0

\* The range loop is blocked in (or about to enter) val.Recv().
ReceiverWaiting == cPc = "recv"

(* ------------------------------ errgroup ------------------------------ *)


\* An errgroup that keeps the last non-nil error instead of the first.
ReportLast(err) ==
  IF err # "nil"
  THEN /\ egErr' = err
       /\ ctxDone' = TRUE
       /\ cancelCount' = cancelCount + (IF egErr = "nil" THEN 1 ELSE 0)
  ELSE UNCHANGED egVars

\* An errgroup that cancels the context when any task returns, failed or not.
ReportCancelAlways(err) ==
  /\ egErr' = IF err # "nil" /\ egErr = "nil" THEN err ELSE egErr
  /\ ctxDone' = TRUE
  /\ cancelCount' = cancelCount + 1

\* errgroup.Group.Go's wrapper after f() returned err: errOnce records the
\* first non-nil error and cancels the context; then g.done().
Report(err) ==
  IF err # "nil" /\ egErr = "nil"
  THEN /\ egErr' = err
       /\ ctxDone' = TRUE
       /\ cancelCount' = cancelCount + 1
  ELSE UNCHANGED egVars

(* ------------------------------ producer ------------------------------ *)

\* A producer that drops the error it met and returns nil.
ProducerReturnSwallow(err) ==
  /\ pErr' = "nil"
  /\ pPc' = "defer"

\* A producer that closes the channel at the end of the loop only, not in a
\* deferred call: an error return leaves the function without the close.
ProducerReturnNoClose(err) ==
  /\ pErr' = err
  /\ pPc' = IF err = "nil" THEN "defer" ELSE "report"

\* A return statement of the producer function: the deferred calls run next.
ProducerReturn(err) ==
  /\ pErr' = err
  /\ pPc' = "defer"

\* db, err := sql.Open("sqlite3", "users.db")
ProducerOpen ==
  /\ pPc = "open"
  /\ \/ /\ dbState' = "open"
        /\ pPc' = "query"
        /\ UNCHANGED << pErr, faults >>
     \/ /\ ProducerReturn("ErrOpen")
        /\ faults' = faults \cup {"open"}
        /\ UNCHANGED dbState
  /\ UNCHANGED << nonStreamVars, mode, source, cursor, user, rowsState, rowsErr, chanBuf, closeCount,
                  cVars, out, logged, egVars, mVars, sent, received, rendered, decoded, lateCalls >>

\* rows, err := db.QueryContext(ctx, `SELECT ...`): fails with ctx.Err() when
\* the context is already cancelled.
ProducerQuery ==
  /\ pPc = "query"
  /\ IF ctxDone
     THEN /\ ProducerReturn("ErrCanceled")
          /\ UNCHANGED << rowsState, faults >>
     ELSE \/ /\ rowsState' = "open"
             /\ pPc' = "next"
             /\ UNCHANGED << pErr, faults >>
          \/ /\ ProducerReturn("ErrQuery")
             /\ faults' = faults \cup {"query"}
             /\ UNCHANGED rowsState
  /\ UNCHANGED << nonStreamVars, mode, source, cursor, user, dbState, rowsErr, chanBuf, closeCount,
                  cVars, out, logged, egVars, mVars, sent, received, rendered, decoded, lateCalls >>

\* database/sql's awaitDone goroutine of a cursor opened with QueryContext:
\* closes the cursor with ctx.Err() once the context is cancelled.
AwaitDone ==
  /\ ctxDone
  /\ rowsState = "open"
  /\ rowsState' = "closed"
  /\ rowsErr' = "ErrCanceled"
  /\ UNCHANGED << nonStreamVars, mode, source, pVars, dbState, chanBuf, closeCount, cVars, out, logged,
                  egVars, mVars, sent, received, rendered, decoded, lateCalls, faults >>

\* A cursor that hands out the previous row again.
CurrentRowStale == source[IF cursor > 1 THEN cursor - 1 ELSE cursor]

\* The row the cursor is positioned on after a successful rows.Next.
CurrentRow == source[cursor]

\* A cursor that reports the end one row early.
EndOfRowsEarly == cursor >= Len(source) - 1

\* The cursor is past the last row of the result set.
EndOfRows == cursor = Len(source)

\* Counts a call on the open cursor that starts with the context cancelled.
CountCall == lateCalls' = lateCalls + (IF ctxDone THEN 1 ELSE 0)


\* A producer that fetches the next row only when the consumer is back at
\* the receive: reading and rendering in strict alternation.
ProducerNextLockstep ==
  /\ pPc = "next"
  /\ ReceiverWaiting
  /\ IF rowsState = "closed"
     THEN /\ ProducerReturn("nil")
          /\ UNCHANGED << cursor, rowsState, rowsErr, lateCalls, faults >>
     ELSE /\ CountCall
          /\ \/ /\ ~EndOfRows
                /\ cursor' = cursor + 1
                /\ pPc' = "scan"
                /\ UNCHANGED << pErr, rowsState, rowsErr, faults >>
             \/ /\ EndOfRows
                /\ rowsState' = "closed"
                /\ ProducerReturn("nil")
                /\ UNCHANGED << cursor, rowsErr, faults >>
             \/ /\ rowsState' = "closed"
                /\ rowsErr' = "ErrFetch"
                /\ faults' = faults \cup {"fetch"}
                /\ ProducerReturn("nil")
                /\ UNCHANGED cursor
  /\ UNCHANGED << nonStreamVars, mode, source, user, dbState, chanBuf, closeCount,
                  cVars, out, logged, egVars, mVars, sent, received, rendered, decoded >>

\* for rows.Next() { ... }; return nil
\* Next returns false on a closed cursor, at the end of the rows and when
\* fetching fails; rows.Err() is not consulted after the loop.
ProducerNext ==
  /\ pPc = "next"
  /\ IF rowsState = "closed"
     THEN /\ ProducerReturn("nil")
          /\ UNCHANGED << cursor, rowsState, rowsErr, lateCalls, faults >>
     ELSE /\ CountCall
          /\ \/ /\ ~EndOfRows
                /\ cursor' = cursor + 1
                /\ pPc' = "scan"
                /\ UNCHANGED << pErr, rowsState, rowsErr, faults >>
             \/ /\ EndOfRows
                /\ rowsState' = "closed"
                /\ ProducerReturn("nil")
                /\ UNCHANGED << cursor, rowsErr, faults >>
             \/ /\ rowsState' = "closed"
                /\ rowsErr' = "ErrFetch"
                /\ faults' = faults \cup {"fetch"}
                /\ ProducerReturn("nil")
                /\ UNCHANGED cursor
  /\ UNCHANGED << nonStreamVars, mode, source, user, dbState, chanBuf, closeCount,
                  cVars, out, logged, egVars, mVars, sent, received, rendered, decoded >>

\* if err := rows.Scan(...); err != nil { return err }
\* Scan on a closed cursor returns the error that closed it.
ProducerScan ==
  /\ pPc = "scan"
  /\ IF rowsState = "closed"
     THEN /\ ProducerReturn(rowsErr)
          /\ UNCHANGED << user, decoded, lateCalls, faults >>
     ELSE /\ CountCall
          /\ \/ /\ user' = <<Scan(mode, CurrentRow)>>
                /\ decoded' = decoded + 1
                /\ pPc' = "send"
                /\ UNCHANGED << pErr, faults >>
             \/ /\ ProducerReturn("ErrScan")
                /\ faults' = faults \cup {"decode"}
                /\ UNCHANGED << user, decoded >>
  /\ UNCHANGED << nonStreamVars, mode, source, cursor, srcVars, chanBuf, closeCount,
                  cVars, out, logged, egVars, mVars, sent, received, rendered >>

\* The send blocks until the buffer has room or a receiver is waiting.
CanSend == Len(chanBuf) < ChanCap \/ (chanBuf = <<>> /\ ReceiverWaiting)

\* The zero value of the element type of the channel: User{} or "".
ZeroValue(m) == IF m = "structured" THEN ScanUser(<<"", "", "", "", "", "">>) ELSE ""

\* A channel on which the zero value is the end marker: the range that
\* receives it ends.
ProducerSendZeroEnds ==
  /\ pPc = "send"
  /\ ~chanClosed
  /\ CanSend
  /\ IF chanBuf = <<>> /\ ReceiverWaiting
     THEN /\ dot' = user
          /\ received' = Append(received, user[1])
          /\ cNode' = 1
          /\ cPc' = IF user[1] = ZeroValue(mode) THEN "footer" ELSE "body"
          /\ UNCHANGED chanBuf
     ELSE /\ chanBuf' = Append(chanBuf, user[1])
          /\ UNCHANGED << dot, received, cNode, cPc >>
  /\ sent' = Append(sent, user[1])
  /\ pPc' = "next"
  /\ UNCHANGED << nonStreamVars, mode, source, cursor, user, pErr, srcVars, closeCount, cErr,
                  out, logged, egVars, mVars, rendered, decoded, lateCalls, faults >>

\* c <- user: blocks until the consumer receives; the element is handed to
\* the receiver waiting in the range.
ProducerSend ==
  /\ pPc = "send"
  /\ ~chanClosed
  /\ CanSend
  /\ IF chanBuf = <<>> /\ ReceiverWaiting
     THEN /\ dot' = user
          /\ received' = Append(received, user[1])
          /\ cNode' = 1
          /\ cPc' = "body"
          /\ UNCHANGED chanBuf
     ELSE /\ chanBuf' = Append(chanBuf, user[1])
          /\ UNCHANGED << dot, received, cNode, cPc >>
  /\ sent' = Append(sent, user[1])
  /\ pPc' = "next"
  /\ UNCHANGED << nonStreamVars, mode, source, cursor, user, pErr, srcVars, closeCount, cErr,
                  out, logged, egVars, mVars, rendered, decoded, lateCalls, faults >>

\* A producer that prints the error it returns to os.Stdout on its way out.
ProducerDefersPrints ==
  /\ pPc = "defer"
  /\ rowsState' = IF rowsState = "none" THEN "none" ELSE "closed"
  /\ dbState' = IF dbState = "none" THEN "none" ELSE "closed"
  /\ closeCount' = closeCount + 1
  /\ pPc' = "report"
  /\ out' = IF pErr = "nil" THEN out ELSE out \o << pErr, NL >>
  /\ UNCHANGED << nonStreamVars, mode, source, cursor, user, pErr, rowsErr, chanBuf,
                  cVars, logged, egVars, mVars, sent, received, rendered, decoded, lateCalls, faults >>

\* The deferred calls, last registered first: rows.Close(), db.Close(), close(c).
ProducerDefers ==
  /\ pPc = "defer"
  /\ rowsState' = IF rowsState = "none" THEN "none" ELSE "closed"
  /\ dbState' = IF dbState = "none" THEN "none" ELSE "closed"
  /\ closeCount' = closeCount + 1
  /\ pPc' = "report"
  /\ UNCHANGED << nonStreamVars, mode, source, cursor, user, pErr, rowsErr, chanBuf,
                  cVars, out, logged, egVars, mVars, sent, received, rendered, decoded, lateCalls, faults >>

\* The producer function has returned pErr to the errgroup.
ProducerReport ==
  /\ pPc = "report"
  /\ Report(pErr)
  /\ pPc' = "done"
  /\ UNCHANGED << nonStreamVars, mode, source, cursor, user, pErr, srcVars, chanBuf, closeCount,
                  cVars, out, logged, mVars, sent, received, rendered, decoded, lateCalls, faults >>

Producer ==
  \/ ProducerOpen \/ ProducerQuery \/ ProducerNext \/ ProducerScan
  \/ ProducerSend \/ ProducerDefers \/ ProducerReport

(* ------------------------------ consumer ------------------------------ *)

\* os.Stdout.Write: append-only.
Write(toks) == out' = out \o toks


\* A renderer that notes the write error and goes on with the next node.
ExecuteFailsContinue ==
  /\ cErr' = "ErrWrite"
  /\ cPc' = IF cPc = "header" THEN "recv" ELSE IF cPc = "footer" THEN "log" ELSE cPc
  /\ faults' = faults \cup {"write"}
  /\ UNCHANGED out

\* A failed write makes tmpl.Execute stop and return the error.
ExecuteFails ==
  /\ cErr' = "ErrWrite"
  /\ cPc' = "log"
  /\ faults' = faults \cup {"write"}
  /\ UNCHANGED out

\* tmpl, err := template.New("markdown").Parse(...): the template is a
\* constant that parses.
ConsumerParse ==
  /\ cPc = "parse"
  /\ cPc' = "header"
  /\ UNCHANGED << nonStreamVars, mode, source, pVars, srcVars, chanBuf, closeCount, cNode, dot, cErr,
                  out, logged, egVars, mVars, sent, received, rendered, decoded, lateCalls, faults >>

\* tmpl.Execute(os.Stdout, c): the text before {{range .}}.
ConsumerHeader ==
  /\ cPc = "header"
  /\ \/ /\ Write(Template(mode).header)
        /\ cPc' = "recv"
        /\ UNCHANGED << cErr, faults >>
     \/ ExecuteFails
  /\ UNCHANGED << nonStreamVars, mode, source, pVars, srcVars, chanBuf, closeCount, cNode, dot,
                  logged, egVars, mVars, sent, received, rendered, decoded, lateCalls >>

\* A receive that carries the producer's error: on the closed channel of a
\* failed producer the range stops with that error.
ConsumerRecvCarriesError ==
  /\ cPc = "recv"
  /\ chanBuf # <<>> \/ chanClosed
  /\ IF chanBuf # <<>>
     THEN /\ dot' = <<Head(chanBuf)>>
          /\ chanBuf' = Tail(chanBuf)
          /\ received' = Append(received, Head(chanBuf))
          /\ cNode' = 1
          /\ cPc' = "body"
          /\ UNCHANGED cErr
     ELSE /\ IF pErr # "nil"
             THEN cErr' = pErr /\ cPc' = "log"
             ELSE cPc' = "footer" /\ UNCHANGED cErr
          /\ UNCHANGED << dot, chanBuf, received, cNode >>
  /\ UNCHANGED << nonStreamVars, mode, source, pVars, srcVars, closeCount, out, logged,
                  egVars, mVars, sent, rendered, decoded, lateCalls, faults >>

\* {{range .}} over a channel: elem, ok := val.Recv() when no sender hands
\* the element over directly: a buffered element, or !ok on a closed and
\* drained channel, which ends the loop.
ConsumerRecv ==
  /\ cPc = "recv"
  /\ chanBuf # <<>> \/ chanClosed
  /\ IF chanBuf # <<>>
     THEN /\ dot' = <<Head(chanBuf)>>
          /\ chanBuf' = Tail(chanBuf)
          /\ received' = Append(received, Head(chanBuf))
          /\ cNode' = 1
          /\ cPc' = "body"
     ELSE /\ cPc' = "footer"
          /\ UNCHANGED << dot, chanBuf, received, cNode >>
  /\ UNCHANGED << nonStreamVars, mode, source, pVars, srcVars, closeCount, cErr, out, logged,
                  egVars, mVars, sent, rendered, decoded, lateCalls, faults >>

\* One node of the range body, written for the current element.
ConsumerBody ==
  /\ cPc = "body"
  /\ LET body == Template(mode).body
     IN  \/ /\ Write(EvalNode(body[cNode], dot[1]))
            /\ IF cNode = Len(body)
               THEN /\ rendered' = Append(rendered, dot[1])
                    /\ cPc' = "recv"
                    /\ UNCHANGED cNode
               ELSE /\ cNode' = cNode + 1
                    /\ UNCHANGED << rendered, cPc >>
            /\ UNCHANGED << cErr, faults >>
         \/ /\ ExecuteFails
            /\ UNCHANGED << cNode, rendered >>
  /\ UNCHANGED << nonStreamVars, mode, source, pVars, srcVars, chanBuf, closeCount, dot,
                  logged, egVars, mVars, sent, received, decoded, lateCalls >>

\* The text after {{end}}; Execute returns nil after it.
ConsumerFooter ==
  /\ cPc = "footer"
  /\ \/ /\ Write(Template(mode).footer)
        /\ cPc' = "log"
        /\ UNCHANGED << cErr, faults >>
     \/ ExecuteFails
  /\ UNCHANGED << nonStreamVars, mode, source, pVars, srcVars, chanBuf, closeCount, cNode, dot,
                  logged, egVars, mVars, sent, received, rendered, decoded, lateCalls >>

\* log.Println("Successfully generated markdown table."); return err
ConsumerLog ==
  /\ cPc = "log"
  /\ logged' = logged + 1
  /\ cPc' = "report"
  /\ UNCHANGED << nonStreamVars, mode, source, pVars, srcVars, chanBuf, closeCount, cNode, dot, cErr,
                  out, egVars, mVars, sent, received, rendered, decoded, lateCalls, faults >>

\* The consumer function has returned cErr to the errgroup.
ConsumerReport ==
  /\ cPc = "report"
  /\ Report(cErr)
  /\ cPc' = "done"
  /\ UNCHANGED << nonStreamVars, mode, source, pVars, srcVars, chanBuf, closeCount, cNode, dot, cErr,
                  out, logged, mVars, sent, received, rendered, decoded, lateCalls, faults >>

Consumer ==
  \/ ConsumerParse \/ ConsumerHeader \/ ConsumerRecv \/ ConsumerBody
  \/ ConsumerFooter \/ ConsumerLog \/ ConsumerReport

(* ------------------------- calling goroutine -------------------------- *)


\* An eg.Wait that returns as soon as an error is recorded, without waiting
\* for the other function.
MainWaitEarly ==
  /\ mPc = "wait"
  /\ (pPc = "done" /\ cPc = "done") \/ egErr # "nil"
  /\ ctxDone' = TRUE
  /\ cancelCount' = cancelCount + 1
  /\ IF egErr # "nil"
     THEN /\ result' = egErr
          /\ mPc' = "done"
     ELSE /\ mPc' = "profile"
          /\ UNCHANGED result
  /\ UNCHANGED << nonStreamVars, mode, source, pVars, srcVars, chanBuf, closeCount, cVars, out, logged,
                  egErr, profile, sent, received, rendered, decoded, lateCalls, faults >>

\* A caller that does not test the error of eg.Wait() and goes on to
\* writeProfile, as generateMarkdown does with the error of Execute.
MainWaitIgnoresError ==
  /\ mPc = "wait"
  /\ pPc = "done" /\ cPc = "done"
  /\ ctxDone' = TRUE
  /\ cancelCount' = cancelCount + 1
  /\ mPc' = "profile"
  /\ UNCHANGED result
  /\ UNCHANGED << nonStreamVars, mode, source, pVars, srcVars, chanBuf, closeCount, cVars, out, logged,
                  egErr, profile, sent, received, rendered, decoded, lateCalls, faults >>

\* err := eg.Wait(): returns g.err once both functions have returned, and
\* cancels the context; if err != nil { return err }
MainWait ==
  /\ mPc = "wait"
  /\ pPc = "done" /\ cPc = "done"
  /\ ctxDone' = TRUE
  /\ cancelCount' = cancelCount + 1
  /\ IF egErr # "nil"
     THEN /\ result' = egErr
          /\ mPc' = "done"
     ELSE /\ mPc' = "profile"
          /\ UNCHANGED result
  /\ UNCHANGED << nonStreamVars, mode, source, pVars, srcVars, chanBuf, closeCount, cVars, out, logged,
                  egErr, profile, sent, received, rendered, decoded, lateCalls, faults >>

\* err = writeProfile("mem-streaming.prof"); return err or nil
MainProfile ==
  /\ mPc = "profile"
  /\ \/ /\ profile' = TRUE
        /\ result' = "nil"
        /\ UNCHANGED faults
     \/ /\ result' = "ErrProfile"
        /\ faults' = faults \cup {"profile"}
        /\ UNCHANGED profile
  /\ mPc' = "done"
  /\ UNCHANGED << nonStreamVars, mode, source, pVars, srcVars, chanBuf, closeCount, cVars, out, logged,
                  egVars, sent, received, rendered, decoded, lateCalls >>

Main == MainWait \/ MainProfile

(* --------------------------- specification ---------------------------- *)

Next == Producer \/ AwaitDone \/ Consumer \/ Main

Spec == Init /\ [][Next]_vars

\* The Go scheduler runs every runnable goroutine eventually.
FairSpec ==
  /\ Spec
  /\ WF_vars(Producer)
  /\ WF_vars(AwaitDone)
  /\ WF_vars(Consumer)
  /\ WF_vars(Main)

TypeOK ==
  /\ pPc \in {"open", "query", "next", "scan", "send", "defer", "report", "done"}
  /\ cPc \in {"parse", "header", "recv", "body", "footer", "log", "report", "done"}
  /\ mPc \in {"wait", "profile", "done"}
  /\ cursor \in 0..Len(source)
  /\ result \in {"none", "nil", "ErrOpen", "ErrQuery", "ErrScan", "ErrCanceled",
                 "ErrWrite", "ErrProfile"}


(* -------------------------- generateMarkdown -------------------------- *)

\* What a step of generateMarkdown leaves alone.
nonMdVars == << streamVars, crVars, monVars, cmdVars, chVars >>

\* A return statement of generateMarkdown.
MdReturn(err) ==
  /\ mdResult' = err
  /\ mdPc' = "done"

\* db, err := sql.Open("sqlite3", "users.db")
MdOpen ==
  /\ mdPc = "open"
  /\ \/ /\ mdPc' = "query"
        /\ UNCHANGED << mdResult, mdFaults >>
     \/ /\ MdReturn("ErrOpen")
        /\ mdFaults' = mdFaults \cup {"open"}
  /\ UNCHANGED << nonMdVars, mdCursor, users, mdIdx, mdNode, mdErr, mdOut, mdLogged, mdProfile >>

\* rows, err := db.Query(`SELECT ...`)
MdQuery ==
  /\ mdPc = "query"
  /\ \/ /\ mdPc' = "next"
        /\ UNCHANGED << mdResult, mdFaults >>
     \/ /\ MdReturn("ErrQuery")
        /\ mdFaults' = mdFaults \cup {"query"}
  /\ UNCHANGED << nonMdVars, mdCursor, users, mdIdx, mdNode, mdErr, mdOut, mdLogged, mdProfile >>

\* for rows.Next() { ... }: the loop ends at the end of the rows and when
\* fetching fails; rows.Err() is not consulted after the loop.
MdRowsNext ==
  /\ mdPc = "next"
  /\ \/ /\ mdCursor < Len(source)
        /\ mdCursor' = mdCursor + 1
        /\ mdPc' = "scan"
        /\ UNCHANGED mdFaults
     \/ /\ mdCursor = Len(source)
        /\ mdPc' = "parse"
        /\ UNCHANGED << mdCursor, mdFaults >>
     \/ /\ mdPc' = "parse"
        /\ mdFaults' = mdFaults \cup {"fetch"}
        /\ UNCHANGED mdCursor
  /\ UNCHANGED << nonMdVars, users, mdIdx, mdNode, mdErr, mdOut, mdLogged, mdResult, mdProfile >>

\* rows.Scan(&user.Email, ...); users = append(users, user)
MdScan ==
  /\ mdPc = "scan"
  /\ \/ /\ users' = Append(users, ScanUser(source[mdCursor]))
        /\ mdPc' = "next"
        /\ UNCHANGED << mdResult, mdFaults >>
     \/ /\ MdReturn("ErrScan")
        /\ mdFaults' = mdFaults \cup {"decode"}
        /\ UNCHANGED users
  /\ UNCHANGED << nonMdVars, mdCursor, mdIdx, mdNode, mdErr, mdOut, mdLogged, mdProfile >>

\* tmpl, err := template.New("markdown").Parse(markdownTemplate)
MdParse ==
  /\ mdPc = "parse"
  /\ mdPc' = "header"
  /\ UNCHANGED << nonMdVars, mdCursor, users, mdIdx, mdNode, mdErr, mdOut, mdLogged,
                  mdResult, mdProfile, mdFaults >>

MdWrite(toks) == mdOut' = mdOut \o toks

\* A failed write makes tmpl.Execute stop and return the error into err.
MdExecuteFails ==
  /\ mdErr' = "ErrWrite"
  /\ mdPc' = "log"
  /\ mdFaults' = mdFaults \cup {"write"}
  /\ UNCHANGED mdOut

\* err = tmpl.Execute(os.Stdout, users): the text before {{range .}}; the
\* range over a slice of length zero executes nothing.
MdHeader ==
  /\ mdPc = "header"
  /\ \/ /\ MdWrite(markdownTemplate.header)
        /\ mdPc' = IF Len(users) = 0 THEN "footer" ELSE "body"
        /\ UNCHANGED << mdErr, mdFaults >>
     \/ MdExecuteFails
  /\ UNCHANGED << nonMdVars, mdCursor, users, mdIdx, mdNode, mdLogged, mdResult, mdProfile >>

\* One node of the range body, written for users[mdIdx].
MdBody ==
  /\ mdPc = "body"
  /\ LET body == markdownTemplate.body
     IN  \/ /\ MdWrite(EvalNode(body[mdNode], users[mdIdx]))
            /\ IF mdNode < Len(body)
               THEN /\ mdNode' = mdNode + 1
                    /\ UNCHANGED << mdIdx, mdPc >>
               ELSE /\ mdNode' = 1
                    /\ mdIdx' = mdIdx + 1
                    /\ mdPc' = IF mdIdx < Len(users) THEN "body" ELSE "footer"
            /\ UNCHANGED << mdErr, mdFaults >>
         \/ /\ MdExecuteFails
            /\ UNCHANGED << mdIdx, mdNode >>
  /\ UNCHANGED << nonMdVars, mdCursor, users, mdLogged, mdResult, mdProfile >>

\* The text after {{end}}; Execute returns nil after it.
MdFooter ==
  /\ mdPc = "footer"
  /\ \/ /\ MdWrite(markdownTemplate.footer)
        /\ mdPc' = "log"
        /\ UNCHANGED << mdErr, mdFaults >>
     \/ MdExecuteFails
  /\ UNCHANGED << nonMdVars, mdCursor, users, mdIdx, mdNode, mdLogged, mdResult, mdProfile >>

\* log.Println("Successfully generated markdown table.")
MdLog ==
  /\ mdPc = "log"
  /\ mdLogged' = mdLogged + 1
  /\ mdPc' = "profile"
  /\ UNCHANGED << nonMdVars, mdCursor, users, mdIdx, mdNode, mdErr, mdOut,
                  mdResult, mdProfile, mdFaults >>

\* err = writeProfile("mem.prof"): assigns err again; return err or nil.
MdWriteProfile ==
  /\ mdPc = "profile"
  /\ \/ /\ mdProfile' = TRUE
        /\ mdErr' = "nil"
        /\ MdReturn("nil")
        /\ UNCHANGED mdFaults
     \/ /\ mdErr' = "ErrProfile"
        /\ MdReturn("ErrProfile")
        /\ mdFaults' = mdFaults \cup {"profile"}
        /\ UNCHANGED mdProfile
  /\ UNCHANGED << nonMdVars, mdCursor, users, mdIdx, mdNode, mdOut, mdLogged >>

MdNext ==
  \/ MdOpen \/ MdQuery \/ MdRowsNext \/ MdScan \/ MdParse
  \/ MdHeader \/ MdBody \/ MdFooter \/ MdLog \/ MdWriteProfile

\* generateMarkdown alone.
MdInit ==
  /\ mode = "structured"
  /\ source \in Sources
  /\ StreamStart
  /\ MdAt("open")
  /\ CrIdle
  /\ MonIdle
  /\ CmdIdle
  /\ ChIdle

MdSpec == MdInit /\ [][MdNext]_vars

\* generateMarkdown, and after it has returned without a failure
\* generateStreamingMarkdown, over the same users table.
MdCompleted == mdPc = "done" /\ mdFaults = {}

EqNext == MdNext \/ (MdCompleted /\ Next)

EqSpec == MdInit /\ [][EqNext]_vars


(* ------------------------------ createDb ------------------------------ *)

\* What a step of createDb leaves alone.
nonCrVars == << streamVars, mdVars, monVars, cmdVars, chVars >>

\* A return statement of createDb.
CrReturn(err) ==
  /\ crResult' = err
  /\ crPc' = "done"

\* if _, err := os.Stat("users.db"); err == nil { err := os.Remove("users.db") ... }
CrRemove ==
  /\ crPc = "remove"
  /\ \/ /\ crPc' = "open"
        /\ UNCHANGED << crResult, crFaults >>
     \/ /\ fileExists
        /\ CrReturn("ErrRemove")
        /\ crFaults' = crFaults \cup {"remove"}
  /\ UNCHANGED << nonCrVars, totalUsers, fileExists, crI, rowsToInsert, table, execs, reported >>

\* db, err := sql.Open("sqlite3", "users.db")
CrOpen ==
  /\ crPc = "open"
  /\ \/ /\ crPc' = "create"
        /\ UNCHANGED << crResult, crFaults >>
     \/ /\ CrReturn("ErrOpen")
        /\ crFaults' = crFaults \cup {"open"}
  /\ UNCHANGED << nonCrVars, totalUsers, fileExists, crI, rowsToInsert, table, execs, reported >>

\* _, err = db.Exec(createTableQuery)
CrCreateTable ==
  /\ crPc = "create"
  /\ \/ /\ crPc' = "loop"
        /\ UNCHANGED << crResult, crFaults >>
     \/ /\ CrReturn("ErrCreate")
        /\ crFaults' = crFaults \cup {"create"}
  /\ UNCHANGED << nonCrVars, totalUsers, fileExists, crI, rowsToInsert, table, execs, reported >>

\* for i := 0; i < totalUsers; i++ { user := User{...};
\*   rowsToInsert[i%usersPerBatch] = fmt.Sprintf("('%s', ...)", ...);
\*   if i%usersPerBatch == 0 { ... } }
CrFill ==
  /\ crPc = "loop"
  /\ crI < totalUsers
  /\ rowsToInsert' = [ rowsToInsert EXCEPT ![crI % usersPerBatch] = crI + 1 ]
  /\ IF crI % usersPerBatch = 0
     THEN /\ crPc' = "exec"
          /\ UNCHANGED crI
     ELSE /\ crI' = crI + 1
          /\ UNCHANGED crPc
  /\ UNCHANGED << nonCrVars, totalUsers, fileExists, table, execs, crResult, reported, crFaults >>

\* strings.Join(rowsToInsert, ","): an empty slot leaves nothing between two
\* commas, which is no VALUES list.
WellFormed(slots) == \A k \in DOMAIN slots : slots[k] # 0

\* The slots of the slice in index order.
Slots == [ k \in 1..usersPerBatch |-> rowsToInsert[k - 1] ]

\* _, err = db.Exec(fmt.Sprintf(insertUserQuery, strings.Join(rowsToInsert, ",")));
\* fmt.Printf("Inserted %d/%d users\n", i, totalUsers): a statement that
\* fails inserts nothing, and err is not looked at.
CrExec ==
  /\ crPc = "exec"
  /\ execs' = Append(execs, Slots)
  /\ \/ /\ WellFormed(Slots)
        /\ table' = table \o Slots
        /\ UNCHANGED crFaults
     \/ /\ ~WellFormed(Slots)
        /\ crFaults' = crFaults \cup {"syntax"}
        /\ UNCHANGED table
     \/ /\ WellFormed(Slots)
        /\ crFaults' = crFaults \cup {"insert"}
        /\ UNCHANGED table
  /\ crI' = crI + 1
  /\ crPc' = "loop"
  /\ UNCHANGED << nonCrVars, totalUsers, fileExists, rowsToInsert, crResult, reported >>

\* fmt.Printf("Successfully inserted %d random users into the database.\n",
\* totalUsers); return nil
CrReport ==
  /\ crPc = "loop"
  /\ crI >= totalUsers
  /\ reported' = TRUE
  /\ CrReturn("nil")
  /\ UNCHANGED << nonCrVars, totalUsers, fileExists, crI, rowsToInsert, table, execs, crFaults >>

CrNext == CrRemove \/ CrOpen \/ CrCreateTable \/ CrFill \/ CrExec \/ CrReport

CrInit ==
  /\ mode = "structured" /\ source = <<>>
  /\ StreamStart
  /\ MdAt("idle")
  /\ totalUsers \in 0..MaxUsers
  /\ fileExists \in BOOLEAN
  /\ CrAt("remove")
  /\ MonIdle
  /\ CmdIdle
  /\ ChIdle

CrSpec == CrInit /\ [][CrNext]_vars

(* --------------------------- monitorHeapSize -------------------------- *)

\* What a step of monitorHeapSize leaves alone.
nonMonVars == << streamVars, mdVars, crVars, cmdVars, chVars >>

\* const unit = 1024
unit == 1024

\* The values runtime.ReadMemStats reports in mem.HeapAlloc.
HeapAllocValues == { 0, 512, 1024, 1025, 1048576 }

\* for n := alloc / unit; n >= unit; n /= unit { div *= unit; exp++ }:
\* the values of div and exp after the loop.
RECURSIVE ScaleLoop(_, _, _)
ScaleLoop(n, div, exp) ==
  IF n >= unit THEN ScaleLoop(n \div unit, div * unit, exp + 1)
  ELSE << div, exp >>

\* float64(alloc)/float64(div) formatted by %.1f, in tenths: the quotient is
\* exact, and the formatting rounds to the nearest tenth, on a tie to the even one.
RoundTenths(alloc, div) ==
  LET q == (10 * alloc) \div div
      r == (10 * alloc) % div
  IN  IF 2 * r > div THEN q + 1
      ELSE IF 2 * r = div THEN q + (q % 2)
      ELSE q

\* The characters of "KMGTPE".
UnitLetters == << "K", "M", "G", "T", "P", "E" >>

\* The number convertHumanReadable prints, as << exp + 1, tenths >>, and
\* << 0, alloc >> below one unit.
HumanValue(alloc) ==
  IF alloc < unit THEN << 0, alloc >>
  ELSE LET de == ScaleLoop(alloc \div unit, unit, 0)
       IN  << de[2] + 1, RoundTenths(alloc, de[1]) >>

convertHumanReadable(alloc) ==
  LET v == HumanValue(alloc)
  IN  IF v[1] = 0 THEN ToString(alloc) \o " B"
      ELSE ToString(v[2] \div 10) \o "." \o ToString(v[2] % 10) \o " "
             \o UnitLetters[v[1]] \o "iB"

\* if mem.HeapAlloc > maxAlloc, with >= in the place of >.
ExceedsOrEquals(heapAlloc) == heapAlloc >= maxAlloc

\* if mem.HeapAlloc > maxAlloc
Exceeds(heapAlloc) == heapAlloc > maxAlloc

\* case <-t.C: one tick: the optional runtime.GC(), ReadMemStats and the
\* update of maxAlloc with its MaxAlloc line.
MonTick ==
  /\ monPc = "loop"
  /\ Len(samples) < MaxTicks
  /\ gcRuns' = gcRuns + (IF withTriggerGC THEN 1 ELSE 0)
  /\ \E heapAlloc \in HeapAllocValues :
       /\ samples' = Append(samples, heapAlloc)
       /\ IF Exceeds(heapAlloc)
          THEN /\ maxAlloc' = heapAlloc
               /\ stderr' = Append(stderr,
                    "MaxAlloc: " \o convertHumanReadable(heapAlloc) \o "\n")
               /\ printedAllocs' = Append(printedAllocs, heapAlloc)
          ELSE UNCHANGED << maxAlloc, stderr, printedAllocs >>
  /\ UNCHANGED << nonMonVars, monPc, withTriggerGC, cmdCtxDone >>

\* case <-ctx.Done(): return
MonDone ==
  /\ monPc = "loop"
  /\ cmdCtxDone
  /\ monPc' = "done"
  /\ UNCHANGED << nonMonVars, withTriggerGC, cmdCtxDone, maxAlloc, gcRuns, stderr,
                  samples, printedAllocs >>

\* defer cancel() of the generate command, when its Run function returns.
MonCancel ==
  /\ monPc # "idle"
  /\ ~cmdCtxDone
  /\ cmdCtxDone' = TRUE
  /\ UNCHANGED << nonMonVars, monPc, withTriggerGC, maxAlloc, gcRuns, stderr,
                  samples, printedAllocs >>

MonNext == MonTick \/ MonDone \/ MonCancel

\* monitorHeapSize alone.
MonInit ==
  /\ mode = "structured" /\ source = <<>>
  /\ StreamStart
  /\ MdAt("idle")
  /\ CrIdle
  /\ withTriggerGC \in BOOLEAN
  /\ MonAt("loop")
  /\ CmdIdle
  /\ ChIdle

MonSpec == MonInit /\ [][MonNext]_vars

(* ------------------- convertHumanReadable over uint64 ----------------- *)

\* A uint64 is held in digits of base unit = 2^10, lowest digit first and
\* without leading zeros (0 is <<>>): six digits of ten bits and a seventh
\* of the four bits left of the 64.
UintDigits == 7

TopDigitMax == 15

\* The digit values explored.
DigitValues == { 0, 1, unit - 1 }

\* The values of uint64 explored, as digits.
RECURSIVE DigitsOfLen(_)
DigitsOfLen(n) ==
  IF n = 0 THEN { <<>> }
  ELSE { <<d>> \o s : d \in DigitValues, s \in DigitsOfLen(n - 1) }

Uint64Values ==
  LET lower == UNION { DigitsOfLen(n) : n \in 0..(UintDigits - 1) }
      top   == { d \in DigitValues \cup { TopDigitMax } : d # 0 }
      all   == { s \o << d >> : s \in lower, d \in top }
  IN  { <<>> } \cup { t \in all : Len(t) = UintDigits => t[UintDigits] <= TopDigitMax }

\* alloc / unit and n /= unit: the lowest digit is dropped.
DivUnit(n) == IF n = <<>> THEN <<>> ELSE Tail(n)

\* n >= unit, with > in the place of >=.
GtUnit(n) == Len(n) >= 2 /\ n # << 0, 1 >>

\* alloc < unit is ~GeqUnit(alloc); n >= unit
GeqUnit(n) == Len(n) >= 2

\* div *= unit on int64, div held as the number of its bits above the lowest
\* one set (div = 2^bits): the product wraps to 0 when that bit leaves int64,
\* which is held as -1.
MulUnit(bits) == IF bits < 0 \/ bits + 10 >= 63 THEN 0 - 1 ELSE bits + 10

\* div, exp := int64(unit), 0; for n := alloc / unit; n >= unit; n /= unit
\* { div *= unit; exp++ }: the bits of div and exp after the loop.
RECURSIVE WideScaleLoop(_, _, _)
WideScaleLoop(n, bits, exp) ==
  IF GeqUnit(n) THEN WideScaleLoop(DivUnit(n), MulUnit(bits), exp + 1)
  ELSE << bits, exp >>

\* What convertHumanReadable computes before it formats: plain bytes below
\* unit, otherwise div (as bits), exp and the letter "KMGTPE"[exp], "?" for an
\* index out of range.
Convert(a) ==
  IF ~GeqUnit(a) THEN [ bytes |-> TRUE, bits |-> 0, exp |-> 0, letter |-> "" ]
  ELSE LET de == WideScaleLoop(DivUnit(a), 10, 0)
       IN  [ bytes |-> FALSE, bits |-> de[1], exp |-> de[2],
             letter |-> IF de[2] + 1 \in DOMAIN UnitLetters
                        THEN UnitLetters[de[2] + 1] ELSE "?" ]

\* One call of convertHumanReadable.
ChCall ==
  /\ chResult = NoItem
  /\ chResult' = << Convert(chAlloc) >>
  /\ UNCHANGED << streamVars, mdVars, crVars, monVars, cmdVars, chAlloc >>

ChNext == ChCall

ChInit ==
  /\ mode = "structured" /\ source = <<>>
  /\ StreamStart
  /\ MdAt("idle")
  /\ CrIdle
  /\ MonIdle
  /\ CmdIdle
  /\ chAlloc \in Uint64Values
  /\ chResult = NoItem

ChSpec == ChInit /\ [][ChNext]_vars

(* --------------------------- generate command ------------------------- *)

\* The names of the three generators.
Generators == { "generateStreamingStringMarkdown", "generateStreamingMarkdown",
                "generateMarkdown" }

\* A dispatch that tests --streaming before --streaming-string.
ChosenStreamingFirst ==
  IF streaming THEN "generateStreamingMarkdown"
  ELSE IF streamingString THEN "generateStreamingStringMarkdown"
  ELSE "generateMarkdown"

\* if streamingString { ... } else if streaming { ... } else { ... }
Chosen ==
  IF streamingString THEN "generateStreamingStringMarkdown"
  ELSE IF streaming THEN "generateStreamingMarkdown"
  ELSE "generateMarkdown"

\* The Run function up to the call of the generator: it starts
\* monitorHeapSize in a goroutine and calls the generator chosen by the flags.
CmdDispatch ==
  /\ cmdPc = "dispatch"
  /\ monPc' = "loop"
  /\ withTriggerGC' = triggerGC
  /\ started' = Append(started, Chosen)
  /\ mode' = IF Chosen = "generateStreamingStringMarkdown" THEN "string" ELSE "structured"
  /\ mdPc' = IF Chosen = "generateMarkdown" THEN "open" ELSE "idle"
  /\ cmdPc' = "call"
  /\ UNCHANGED << source, pPc, cursor, user, pErr, dbState, rowsState, rowsErr,
                  chanBuf, closeCount, cPc, cNode, dot, cErr, out, logged,
                  egErr, ctxDone, cancelCount, mPc, result, profile,
                  sent, received, rendered, decoded, lateCalls, faults,
                  mdCursor, users, mdIdx, mdNode, mdErr, mdOut, mdLogged,
                  mdResult, mdProfile, mdFaults, crVars,
                  cmdCtxDone, maxAlloc, gcRuns, stderr, samples, printedAllocs,
                  streaming, streamingString, triggerGC, chVars >>

\* The generator called is running.
Running(g) == cmdPc = "call" /\ started = << g >>

\* The generator called has returned.
GeneratorReturned ==
  IF Chosen = "generateMarkdown" THEN mdPc = "done" ELSE mPc = "done"

\* The generator returns into Run; Run returns and the deferred cancel()
\* cancels the context of monitorHeapSize.
CmdReturn ==
  /\ cmdPc = "call"
  /\ GeneratorReturned
  /\ cmdPc' = "done"
  /\ cmdCtxDone' = TRUE
  /\ UNCHANGED << streamVars, mdVars, crVars, monPc, withTriggerGC, maxAlloc, gcRuns,
                  stderr, samples, printedAllocs, streaming, streamingString,
                  triggerGC, started, chVars >>

\* The steps of the generator that was called.
GeneratorStep ==
  \/ (Running("generateStreamingStringMarkdown") \/ Running("generateStreamingMarkdown"))
       /\ Next
  \/ Running("generateMarkdown") /\ MdNext

\* The steps of monitorHeapSize next to the generator.
MonitorStep ==
  \/ Len(samples) < GenTicks /\ MonTick
  \/ MonDone

GenNext == CmdDispatch \/ GeneratorStep \/ MonitorStep \/ CmdReturn

\* The generate command with its flags, over a users table.
GenInit ==
  /\ mode = "none"
  /\ source \in SeqsUpTo(RowValues, GenRows)
  /\ StreamStart
  /\ MdAt("idle")
  /\ CrIdle
  /\ MonIdle
  /\ cmdPc = "dispatch"
  /\ streaming \in BOOLEAN /\ streamingString \in BOOLEAN /\ triggerGC \in BOOLEAN
  /\ started = <<>>
  /\ ChIdle

GenSpec == GenInit /\ [][GenNext]_vars

(* ------------------------------ properties ---------------------------- *)

\* The items a complete run delivers: the i-th is the i-th row, decoded.
Expected == [ i \in 1..Len(source) |-> Scan(mode, source[i]) ]

IsPrefix(s, t) == Len(s) <= Len(t) /\ \A i \in 1..Len(s) : s[i] = t[i]

Returned == mPc = "done"

\* C1: a run over n >= 0 rows in which nothing fails renders exactly the n
\* rows, the i-th rendered row being the i-th source row, and returns
\* success: while nothing has failed the rendered rows are a prefix of the
\* source rows and no error is returned, a fault-free run that has returned
\* has rendered all of them and returned nil, and under fair scheduling a run
\* eventually fails somewhere or returns.
C1_FaultFreeRendersAll ==
  /\ [](faults = {} =>
          /\ IsPrefix(rendered, Expected)
          /\ result \in {"none", "nil"}
          /\ (Returned => rendered = Expected /\ result = "nil"))
  /\ <>(faults # {} \/ Returned)

C1_Witness ==
  /\ Returned /\ faults = {} /\ result = "nil"
  /\ Len(source) >= 2 /\ source[1] # source[2]
  /\ rendered = Expected

\* C2: under fair scheduling every run eventually returns an outcome.
C2_EventuallyReturns == <>Returned

\* C3: the items the consumer has received are exactly the items the
\* producer has sent, and they are a prefix of the source rows in source
\* order.
C3_Fifo ==
  /\ received = sent
  /\ IsPrefix(sent, Expected)

C3_Witness ==
  /\ Len(received) >= 2
  /\ received[1] # received[2]
  /\ cPc = "body"

\* C4: the channel buffers nothing, and at most one decoded row has not yet
\* been received by the consumer.
C4_AtMostOneInFlight ==
  /\ chanBuf = <<>>
  /\ decoded - Len(received) <= 1

C4_Witness ==
  /\ pPc = "send" /\ cPc = "body"
  /\ Len(received) >= 1
  /\ decoded - Len(received) = 1

\* C5: once the context is cancelled the producer starts no push on the
\* channel and no push completes.
C5_NoPushAfterCancel ==
  [][ctxDone => /\ (pPc' = "send" => pPc = "send")
                /\ sent' = sent]_vars

\* C6: once the context is cancelled the producer starts no new rows.Next or
\* rows.Scan on the cursor; at most the one call in flight when the signal
\* was set completes.
C6_NoFetchAfterCancel == lateCalls <= 1

\* C7 as stated: when rows.Scan fails the run returns that decode error and
\* the consumer has rendered at most the k rows emitted before it.
C7_DecodeErrorReturned ==
  "decode" \in faults =>
    /\ Len(rendered) <= decoded
    /\ (Returned => result = "ErrScan")

\* C7 as amended: when rows.Scan fails after k rows were emitted, k < n, the
\* consumer renders at most those k rows and the run returns an error: the
\* decode error, unless the consumer failed with a write error of its own,
\* which is returned when the errgroup recorded it first.
C7_DecodeErrorOrEarlierWriteError ==
  "decode" \in faults =>
    /\ decoded = Len(sent) /\ decoded < Len(source)
    /\ Len(rendered) <= decoded
    /\ IsPrefix(rendered, Expected)
    /\ pPc = "done" => egErr # "nil"
    /\ Returned =>
         /\ result \in {"ErrScan", "ErrWrite"}
         /\ (result = "ErrWrite" => cErr = "ErrWrite")
         /\ (cErr = "nil" => result = "ErrScan")

C7_Witness ==
  /\ "decode" \in faults
  /\ Returned /\ result = "ErrScan"
  /\ decoded = 1 /\ Len(rendered) = 1

\* C8: the run returns success only if all n source rows were rendered.
C8_SuccessOnlyWhenComplete ==
  result = "nil" => Len(rendered) = Len(source)

\* C9: the channel is closed exactly once, by the producer, on every path
\* on which the producer function returns, and the producer is never sending
\* on a closed channel.
C9_ClosedOnceByProducer ==
  /\ closeCount <= 1
  /\ pPc \in {"report", "done"} <=> closeCount = 1
  /\ chanClosed => pPc # "send"

C9_Witness ==
  /\ pPc = "done" /\ pErr = "ErrScan"
  /\ closeCount = 1
  /\ Len(sent) >= 1

\* C10: once the producer has returned, on any path, the consumer
\* eventually returns: it is not left blocked on the receive.
C10_ConsumerNotLeftBlocked ==
  (pPc \in {"report", "done"}) ~> (cPc = "done")

C10_Witness ==
  /\ pPc = "done" /\ pErr # "nil"
  /\ cPc = "recv"

\* C11: the run surfaces at most one error, the first one a task returned to
\* the errgroup: the first non-nil return value is recorded, a recorded error
\* is never replaced, the caller returns the recorded error, and once a
\* task has returned an error the outcome is not success.
C11_FirstErrorWins ==
  [][ /\ (egErr # "nil" => egErr' = egErr)
      /\ (egErr = "nil" /\ pPc = "report" /\ pPc' = "done" => egErr' = pErr)
      /\ (egErr = "nil" /\ cPc = "report" /\ cPc' = "done" => egErr' = cErr)
      /\ (egErr # "nil" /\ mPc' = "done" => result' = egErr)
      /\ (egErr # "nil" => result' # "nil")
      /\ (result # "none" => result' = result) ]_vars

C11_Witness ==
  /\ Returned
  /\ pErr = "ErrScan" /\ cErr = "ErrWrite"
  /\ pPc = "done" /\ cPc = "done"
  /\ result = "ErrScan"

\* C12: the caller leaves eg.Wait, and so returns an outcome, only after
\* both the producer and the consumer function have returned to the
\* errgroup, also when one of them has failed.
C12_WaitsForBoth ==
  (mPc # "wait" \/ result # "none") => (pPc = "done" /\ cPc = "done")

C12_Witness ==
  /\ Returned /\ result = "ErrScan"
  /\ cErr = "nil" /\ cPc = "done"
  /\ Len(rendered) >= 1

\* C13: when a write to os.Stdout fails, the consumer receives nothing more
\* and writes nothing more, and returns that error; what was written before
\* the failure stays as it is, the sink only ever growing by appending.
C13_WriteFailureStops ==
  [][ /\ IsPrefix(out, out')
      /\ (cErr # "nil" => /\ out' = out
                          /\ received' = received
                          /\ rendered' = rendered
                          /\ cErr' = cErr
                          /\ cPc' \in {"log", "report", "done"})
      /\ ("write" \in faults' /\ "write" \notin faults =>
             cErr' = "ErrWrite" /\ cPc' = "log") ]_vars

C13_Witness ==
  /\ cPc = "done" /\ cErr = "ErrWrite"
  /\ Len(rendered) = 1 /\ Len(received) = 2
  /\ cNode > 1
  /\ pPc = "send"

\* The text of a token sequence cut at its newlines, as strings.Split(s, "\n")
\* cuts it: cur is the line being collected, acc the lines before it.
RECURSIVE SplitLines(_, _, _)
SplitLines(toks, cur, acc) ==
  IF toks = <<>> THEN Append(acc, cur)
  ELSE IF Head(toks) = NL THEN SplitLines(Tail(toks), "", Append(acc, cur))
  ELSE SplitLines(Tail(toks), cur \o Head(toks), acc)

\* The lines of a text: a text that ends with a newline has no extra empty
\* last line.
Lines(toks) ==
  LET all == SplitLines(toks, "", <<>>)
  IN  IF all[Len(all)] = "" THEN SubSeq(all, 1, Len(all) - 1) ELSE all

\* The row line of a record of the users table.
RowLine(row) ==
  "| " \o row[1] \o " | " \o row[2] \o " | " \o row[3] \o " | " \o row[4]
       \o " | " \o row[5] \o " | " \o row[6] \o " |"

RowLines == [ i \in 1..Len(source) |-> RowLine(source[i]) ]

StructuredRunComplete ==
  /\ mode = "structured"
  /\ cPc \in {"log", "report", "done"} /\ cErr = "nil"
  /\ faults \subseteq {"profile"}

\* C14 as stated: in structured mode the lines of the output are the header
\* line, the separator line and then the n row lines.
C14_HeaderSeparatorRows ==
  StructuredRunComplete => Lines(out) = <<HeaderLine, SeparatorLine>> \o RowLines

\* C14 as amended: in structured mode the lines of the output are an empty
\* line, the header line, the separator line, an empty line and then exactly
\* the n row lines `| Email | FirstName | LastName | Address | City | Zip |`
\* of the records, in order.
C14_BlankHeaderSeparatorBlankRows ==
  StructuredRunComplete =>
    Lines(out) = <<"", HeaderLine, SeparatorLine, "">> \o RowLines

C14_Witness ==
  /\ StructuredRunComplete
  /\ source = << <<"a@x.com", "A", "B", "1 St", "C", "00000">> >>
  /\ Lines(out) = <<"", HeaderLine, SeparatorLine, "", "| a@x.com | A | B | 1 St | C | 00000 |">>

\* The row line of a record in pre-formatted mode: the Line of the query
\* between the two bars of the template.
StringRowLine(row) ==
  "|" \o row[1] \o "|" \o row[2] \o "|" \o row[3] \o "|" \o row[4]
      \o "|" \o row[5] \o "|" \o row[6] \o "|"

StringRowLines == [ i \in 1..Len(source) |-> StringRowLine(source[i]) ]

StringRunComplete ==
  /\ mode = "string"
  /\ cPc \in {"log", "report", "done"} /\ cErr = "nil"
  /\ faults \subseteq {"profile"}

NonEmptyLine(l) == l # ""

\* C15: in pre-formatted mode a failure-free run over n Lines writes, after
\* the header and separator lines, exactly n lines that are not empty, the
\* i-th being the i-th formatted row.
C15_OneLinePerRow ==
  StringRunComplete =>
    /\ SubSeq(Lines(out), 1, 3) = <<"", HeaderLine, SeparatorLine>>
    /\ SelectSeq(SubSeq(Lines(out), 4, Len(Lines(out))), NonEmptyLine) = StringRowLines

\* C16: for the same source rows and no failure, generateStreamingMarkdown
\* writes exactly the output that generateMarkdown writes, and both return
\* nil.
C16_SameOutput ==
  (MdCompleted /\ Returned /\ faults = {}) =>
     /\ out = mdOut
     /\ result = "nil" /\ mdResult = "nil"

C16_Witness ==
  /\ MdCompleted /\ Returned /\ faults = {}
  /\ Len(source) >= 2 /\ source[1] # source[2]
  /\ out = mdOut
  /\ Len(Lines(mdOut)) = 4 + Len(source)

Count(tok, toks) == Cardinality({ i \in DOMAIN toks : toks[i] = tok })

\* The header is the text with the header line and the separator line.
HeaderCount == Count(HeaderLine, out)

\* The footer is a newline behind the header that does not start a row.
FooterCount ==
  Cardinality({ i \in DOMAIN out :
                  /\ i > Len(markdownTemplate.header)
                  /\ out[i] = NL
                  /\ (i = Len(out) \/ out[i + 1] # "| ") })

ExecuteReturned == cPc \in {"log", "report", "done"}

\* C17 as stated: header and footer are each written exactly once in every
\* run, whatever the number of rows.
C17_HeaderFooterOncePerRun ==
  ExecuteReturned => HeaderCount = 1 /\ FooterCount = 1

\* C17 as amended: header and footer are each written at most once, the
\* header before anything else, and exactly once, for every row count
\* including 0, in every run in which no write to the sink fails.
C17_HeaderFooterOnceUnlessWriteFails ==
  /\ HeaderCount <= 1 /\ FooterCount <= 1
  /\ Count(SeparatorLine, out) = HeaderCount
  /\ out # <<>> => SubSeq(out, 1, 5) = <<NL, HeaderLine, NL, SeparatorLine, NL>>
  /\ FooterCount = 1 => ExecuteReturned /\ out[Len(out)] = NL
  /\ (ExecuteReturned /\ cErr = "nil") => HeaderCount = 1 /\ FooterCount = 1
  /\ (ExecuteReturned /\ cErr # "nil") => FooterCount = 0

C17_Witness ==
  /\ source = <<>>
  /\ cPc = "done" /\ cErr = "nil"
  /\ out = <<NL, HeaderLine, NL, SeparatorLine, NL, NL>>

\* C18: producer and consumer make progress independently, synchronized at
\* the channel only: the producer can take its step whenever it is not at the
\* send, in particular it can fetch and decode row k+1 while the consumer is
\* rendering row k, and the consumer can take its step whenever it is not at
\* the receive.
C18_IndependentProgress ==
  /\ pPc \notin {"send", "done"} => ENABLED Producer
  /\ cPc \notin {"recv", "done"} => ENABLED Consumer

C18_Witness ==
  /\ cPc = "body" /\ Len(received) >= 1 /\ cNode > 1
  /\ pPc = "scan" /\ cursor = Len(received) + 1
  /\ rowsState = "open"

\* C20: when createDb reports `Successfully inserted totalUsers random
\* users`, the users table holds exactly totalUsers rows, inserted in
\* batches of usersPerBatch rows.
C20_ReportedMeansInserted ==
  reported =>
    /\ Len(table) = totalUsers
    /\ \A k \in DOMAIN execs : WellFormed(execs[k])

(* C21: in generateMarkdown no output is written before the row source is
   exhausted: whenever anything has been written, all n records of the
   source are held in the slice `users`. *)
C21_AllAccumulatedBeforeOutput ==
  mdOut # <<>> => (mdCursor = Len(source) /\ Len(users) = Len(source))

\* The largest element of a sequence of naturals, 0 for the empty one.
MaxOf(s) == IF s = <<>> THEN 0
            ELSE CHOOSE m \in { s[i] : i \in DOMAIN s } : \A i \in DOMAIN s : s[i] <= m

\* The samples that exceeded every sample before them (and 0), in order.
Records(s) == SelectSeq([ i \in DOMAIN s |-> IF s[i] > MaxOf(SubSeq(s, 1, i - 1))
                                              THEN s[i] ELSE 0 ],
                        LAMBDA x : x # 0)

\* The order of the numbers convertHumanReadable prints.
HumanLess(a, b) == a[1] < b[1] \/ (a[1] = b[1] /\ a[2] < b[2])

\* maxAlloc is the maximum sample, and a line is printed exactly for the
\* samples that exceeded the maximum before them.
HighWatermark ==
  /\ maxAlloc = MaxOf(samples)
  /\ printedAllocs = Records(samples)
  /\ Len(stderr) = Len(printedAllocs)
  /\ \A k \in DOMAIN stderr :
       stderr[k] = "MaxAlloc: " \o convertHumanReadable(printedAllocs[k]) \o "\n"

(* C22 as stated: maxAlloc is the maximum sample seen so far, a line is
   printed only for a sample that strictly exceeds the previous maximum, and
   the values the printed lines show are strictly increasing. *)
C22_PrintedStrictlyIncreasing ==
  /\ HighWatermark
  /\ \A j, k \in DOMAIN printedAllocs :
       j < k => HumanLess(HumanValue(printedAllocs[j]), HumanValue(printedAllocs[k]))

(* C22 amended: maxAlloc is the maximum sample seen so far and never
   decreases, a line is printed only for a sample that strictly exceeds the
   previous maximum, the values of maxAlloc the lines render are strictly
   increasing, and the values the lines show never decrease. *)
C22_PrintedNeverDecreases ==
  /\ [](/\ HighWatermark
        /\ \A j, k \in DOMAIN printedAllocs :
             j < k => /\ printedAllocs[j] < printedAllocs[k]
                      /\ ~HumanLess(HumanValue(printedAllocs[k]),
                                    HumanValue(printedAllocs[j])))
  /\ [][maxAlloc' >= maxAlloc]_vars

\* Two lines were printed, and a later sample below the maximum printed nothing.
C22_Witness ==
  /\ Len(stderr) = 2
  /\ Len(samples) = 3
  /\ samples[3] < maxAlloc

(* C23: generateMarkdown returns a non-nil error whenever template execution
   or a write to the sink failed. *)
C23_RenderFailureReturned ==
  (mdPc = "done" /\ "write" \in mdFaults) => mdResult # "nil"

\* The error of the failed sql.Open or QueryContext, "nil" when neither failed.
OpenQueryError ==
  IF "open" \in faults THEN "ErrOpen"
  ELSE IF "query" \in faults THEN "ErrQuery"
  ELSE "nil"

\* After a failed open or query the producer fetched nothing, pushed nothing
\* and closed the channel on its way out, and the consumer rendered no row.
NothingAfterOpenQueryFailure ==
  /\ cursor = 0 /\ decoded = 0 /\ rowsState = "none"
  /\ sent = <<>> /\ received = <<>> /\ rendered = <<>>
  /\ pPc \in {"defer", "report", "done"}
  /\ pPc \in {"report", "done"} => closeCount = 1
  /\ pErr = OpenQueryError

(* C24 as stated: if sql.Open or QueryContext fails, the producer performs no
   further row-source operation and no push, closes the channel, the consumer
   renders zero rows, and the run returns that open or query error. *)
C24_OpenQueryErrorReturned ==
  OpenQueryError # "nil" =>
    /\ NothingAfterOpenQueryFailure
    /\ Returned => result = OpenQueryError

(* C24 amended: as above, and the run returns that open or query error
   unless a write error of the consumer was recorded first, which is then
   the error returned. *)
C24_OpenQueryErrorOrEarlierWriteError ==
  OpenQueryError # "nil" =>
    /\ NothingAfterOpenQueryFailure
    /\ Returned =>
         \/ result = OpenQueryError
         \/ result = "ErrWrite" /\ "write" \in faults

\* QueryContext failed; the consumer wrote header and footer without a row
\* and the run returned the query error.
C24_Witness ==
  /\ Returned /\ "query" \in faults /\ result = "ErrQuery"
  /\ closeCount = 1 /\ cPc = "done" /\ cErr = "nil"
  /\ out = Template(mode).header \o Template(mode).footer

(* C25: the producer's error is never carried through the channel: an error
   of the consumer is a failed write of its own; when the producer failed
   after k rows and no write failed, the consumer renders the k rows and the
   footer as at a normal end of the stream and returns nil; and the run then
   returns the producer's error, which reached it through the errgroup. *)
C25_ErrorNotCarriedThroughChannel ==
  /\ cErr # "nil" => (cErr = "ErrWrite" /\ "write" \in faults)
  /\ (pErr # "nil" /\ "write" \notin faults /\ cPc = "done") =>
       /\ cErr = "nil"
       /\ rendered = sent
       /\ FooterCount = 1
       /\ closeCount = 1
  /\ (Returned /\ pErr # "nil" /\ cErr = "nil") => (result = pErr /\ egErr = pErr)

\* rows.Scan failed after at least one row was sent; the consumer rendered
\* the rows sent and the footer and returned nil; the run returned the error.
C25_Witness ==
  /\ Returned /\ pErr = "ErrScan" /\ Len(sent) >= 1
  /\ cErr = "nil" /\ rendered = sent /\ FooterCount = 1
  /\ result = "ErrScan"

(* C26: the context is cancelled before both tasks have returned only when a
   task has returned an error, so in a run where neither task fails it is
   not cancelled before both have returned; once cancelled it stays cancelled. *)
C26_CancelOnlyOnFailureOrAtEnd ==
  /\ [](ctxDone => \/ pPc = "done" /\ cPc = "done"
                   \/ pErr # "nil" /\ pPc = "done"
                   \/ cErr # "nil" /\ cPc = "done")
  /\ [][ctxDone => ctxDone']_vars

\* A run in which no task failed has returned: the context was cancelled by
\* eg.Wait only.
C26_Witness ==
  /\ Returned /\ pErr = "nil" /\ cErr = "nil"
  /\ ctxDone /\ cancelCount = 1

(* C27: the end of the stream is signalled only by closing the channel: the
   range ends only on the closed and drained channel, and every item
   received, an item equal to the zero value included, is rendered as a row
   before the range goes on, so that without a failed write the rows
   rendered at the end of the range are the rows sent. *)
C27_EndOfStreamOnlyByClose ==
  /\ [][(cPc = "recv" /\ cPc' = "footer") => (chanClosed /\ chanBuf = <<>>)]_vars
  /\ [](/\ IsPrefix(rendered, received)
        /\ Len(received) <= Len(rendered) + 1
        /\ (cPc \in {"footer", "log", "report", "done"} /\ "write" \notin faults)
             => rendered = sent)

\* The first of two items was the zero value of User; both were rendered.
C27_Witness ==
  /\ cPc = "done" /\ mode = "structured"
  /\ Len(rendered) = 2
  /\ rendered[1] = ZeroValue(mode)
  /\ rendered[2] # ZeroValue(mode)
  /\ out = markdownTemplate.header
             \o << NL, "| ", "", " | ", "", " | ", "", " | ", "", " | ", "", " | ", "", " |" >>
             \o << NL, "| ", "a@x.com", " | ", "A", " | ", "B", " | ", "1 St", " | ", "C", " | ", "00000", " |" >>
             \o markdownTemplate.footer

(* C28: no step of the producer changes the output sink or the result of
   the consumer's rendering, and no step of the consumer advances the row
   source cursor or changes another part of the producer's row source; the
   tasks meet in the channel only. *)
C28_ChannelOnlySharedState ==
  /\ [][Producer => UNCHANGED << out, logged, cErr, rendered >>]_vars
  /\ [][Consumer => UNCHANGED << pVars, srcVars, decoded, sent, closeCount >>]_vars

\* The producer has fetched and sent a second row while the consumer had
\* written the first.
C28_Witness ==
  /\ cursor = 2 /\ Len(sent) = 2
  /\ Len(rendered) = 1
  /\ out # <<>>

(* C29: "Successfully generated markdown table." is logged only when
   tmpl.Execute returned without error. *)
C29_LoggedOnlyOnSuccess ==
  logged > 0 => cErr = "nil"

(* C30: the heap profile is written only after eg.Wait returned nil; when
   eg.Wait returned an error no profile is written, writeProfile is not
   called and that error is returned; when eg.Wait returned nil the run
   returns the error of writeProfile, nil when the profile was written. *)
C30_ProfileOnlyAfterSuccessfulWait ==
  /\ (profile \/ "profile" \in faults \/ mPc = "profile") =>
       (egErr = "nil" /\ pPc = "done" /\ cPc = "done")
  /\ (Returned /\ egErr # "nil") =>
       (~profile /\ "profile" \notin faults /\ result = egErr)
  /\ (Returned /\ egErr = "nil") =>
       IF "profile" \in faults THEN result = "ErrProfile" /\ ~profile
       ELSE result = "nil" /\ profile

\* The pipeline returned without error and writing the profile failed.
C30_Witness ==
  /\ Returned /\ egErr = "nil" /\ "profile" \in faults
  /\ result = "ErrProfile" /\ Len(rendered) >= 1

(* C31: the generate command calls exactly one generator per invocation:
   generateStreamingStringMarkdown when --streaming-string is set, also
   with --streaming; otherwise generateStreamingMarkdown when --streaming is
   set; otherwise generateMarkdown; and only the generator called runs. *)
C31_ExactlyOneGenerator ==
  /\ cmdPc = "dispatch" => started = <<>>
  /\ cmdPc \in {"call", "done"} =>
       /\ Len(started) = 1
       /\ streamingString => started[1] = "generateStreamingStringMarkdown"
       /\ (~streamingString /\ streaming) => started[1] = "generateStreamingMarkdown"
       /\ (~streamingString /\ ~streaming) => started[1] = "generateMarkdown"
       /\ IF started[1] = "generateMarkdown"
          THEN StreamStart
          ELSE /\ MdAt("idle")
               /\ mode = (IF streamingString THEN "string" ELSE "structured")
  /\ cmdPc = "done" =>
       IF started[1] = "generateMarkdown" THEN mdResult # "none" ELSE result # "none"

\* With both flags set the string generator ran to its end and rendered a row.
C31_Witness ==
  /\ cmdPc = "done" /\ streaming /\ streamingString
  /\ started = << "generateStreamingStringMarkdown" >>
  /\ mode = "string" /\ Len(rendered) = 1 /\ result = "nil"

(* C32: createDb returns a non-nil error whenever a database statement it
   executed failed, a batch INSERT included. *)
C32_FailedStatementReturned ==
  (crPc = "done" /\ crFaults # {}) => crResult # "nil"

\* The batches executed that contain the tuple of the user made in iteration j.
BatchesWith(j) ==
  { k \in DOMAIN execs : \E s \in DOMAIN execs[k] : execs[k][s] = j + 1 }

(* C33: every batch INSERT createDb executes contains only fully populated
   row tuples, and when createDb has returned nil each generated user
   appears in exactly one executed batch. *)
C33_BatchesFullAndDisjoint ==
  /\ \A k \in DOMAIN execs : WellFormed(execs[k])
  /\ (crPc = "done" /\ crResult = "nil") =>
       \A j \in 0..(totalUsers - 1) : Cardinality(BatchesWith(j)) = 1

\* 2^bits for a multiple of ten bits, in digits of base unit.
PowerOfUnit(bits) == [ k \in 1..(bits \div 10) |-> 0 ] \o << 1 >>

\* a < b for numbers in digits of base unit without leading zeros.
RECURSIVE WideLess(_, _)
WideLess(a, b) ==
  IF Len(a) # Len(b) THEN Len(a) < Len(b)
  ELSE IF a = <<>> THEN FALSE
  ELSE IF a[Len(a)] # b[Len(b)] THEN a[Len(a)] < b[Len(b)]
  ELSE WideLess(SubSeq(a, 1, Len(a) - 1), SubSeq(b, 1, Len(b) - 1))

\* The number a number of at most three digits stands for.
RECURSIVE WideValue(_)
WideValue(a) == IF a = <<>> THEN 0 ELSE a[1] + unit * WideValue(Tail(a))

(* C34: for every uint64 alloc >= 1024 convertHumanReadable chooses exp in
   0..5, so that "KMGTPE"[exp] is in range, with div = 1024^(exp+1) not
   overflowing int64 and div <= alloc < 1024*div; for alloc < 1024 it
   reports plain bytes; where alloc fits the integers of the monitor's
   model, that model computes the same div and exp. *)
C34_ExponentInRange ==
  chResult # NoItem =>
    /\ IF WideLess(chAlloc, PowerOfUnit(10))
       THEN chResult[1].bytes
       ELSE /\ ~chResult[1].bytes
            /\ chResult[1].exp \in 0..5
            /\ chResult[1].letter = UnitLetters[chResult[1].exp + 1]
            /\ chResult[1].bits = 10 * (chResult[1].exp + 1)
            /\ chResult[1].bits < 63
            /\ ~WideLess(chAlloc, PowerOfUnit(chResult[1].bits))
            /\ WideLess(chAlloc, PowerOfUnit(chResult[1].bits + 10))
    /\ (Len(chAlloc) \in 2..3) =>
         LET de == ScaleLoop(WideValue(chAlloc) \div unit, unit, 0)
         IN  /\ de[2] = chResult[1].exp
             /\ de[1] = WideValue(PowerOfUnit(chResult[1].bits))

\* The call with the largest uint64, 2^64 - 1, has returned exp = 5.
C34_Witness ==
  /\ chResult # NoItem
  /\ chAlloc = << unit - 1, unit - 1, unit - 1, unit - 1, unit - 1, unit - 1, TopDigitMax >>
  /\ chResult[1].exp = 5 /\ chResult[1].letter = "E"

====
